---- MODULE Spec2Model ----
(***************************************************************************)
(* Model of app.py, the Streamlit troubleshooting lookup.                  *)
(*                                                                         *)
(* A Python str is a sequence of one-character strings; the empty str is   *)
(* <<>>.  A cell of the spreadsheet's ID column is either a str or an int  *)
(* (pd.read_excel keeps numeric cells numeric), written as a record        *)
(* [kind, s, n].  A suspect cell is a str or NaN (an empty cell).          *)
(* One step of the model is one Streamlit interaction: the user commits a  *)
(* new value in one text field (or reloads the page) and the whole script  *)
(* runs top to bottom.                                                     *)
(***************************************************************************)
EXTENDS Integers, Sequences, FiniteSets, TLC

(* ----------------------------- bounds ---------------------------------- *)
\* number of text fields of the form (30 in app.py, lines 42-46)
NumFields == 2
\* most rows of data.xlsx
MaxRows == 2

(* --------------------------- characters -------------------------------- *)
LowerLetters == {"a", "b"}
UpperLetters == {"A", "B"}
Whitespace == {" "}
DigitChars == <<"0", "1", "2", "3", "4", "5", "6", "7", "8", "9">>

\* values of the suspect cells
SuspectValues == {<<"X">>, <<"Y">>}

Range(f) == {f[i] : i \in DOMAIN f}

(* ------------------------ Python str methods --------------------------- *)
LowerChar(c) ==
    CASE c = "A" -> "a"
      [] c = "B" -> "b"
      [] OTHER -> c

\* str.lower()
Lower(s) == [i \in 1..Len(s) |-> LowerChar(s[i])]

\* str.islower(): at least one cased character and no uppercase one
IsLower(s) ==
    /\ \E i \in 1..Len(s) : s[i] \in LowerLetters
    /\ \A i \in 1..Len(s) : s[i] \notin UpperLetters

RECURSIVE LStrip(_)
LStrip(s) ==
    IF s # <<>> /\ Head(s) \in Whitespace THEN LStrip(Tail(s)) ELSE s

RECURSIVE RStrip(_)
RStrip(s) ==
    IF s # <<>> /\ s[Len(s)] \in Whitespace
    THEN RStrip(SubSeq(s, 1, Len(s) - 1))
    ELSE s

\* str.strip()
Strip(s) == RStrip(LStrip(s))

\* str(n) of a non-negative int
RECURSIVE IntToStr(_)
IntToStr(n) ==
    IF n < 10 THEN <<DigitChars[n + 1]>>
    ELSE Append(IntToStr(n \div 10), DigitChars[(n % 10) + 1])

(* ------------------------------ cells ---------------------------------- *)
StrCell(s) == [kind |-> "str", s |-> s, n |-> 0]
IntCell(n) == [kind |-> "int", s |-> <<>>, n |-> n]
NaN == [kind |-> "nan", s |-> <<>>, n |-> 0]

\* one element of df["ID"].astype(str)
AsStr(cell) == IF cell.kind = "str" THEN cell.s ELSE IntToStr(cell.n)

\* Python ==  between a str and a cell of the table: a str never equals an int
StrEqCell(s, cell) == cell.kind = "str" /\ cell.s = s

\* pd.notna
NotNa(cell) == cell.kind # "nan"

suspect_columns == <<"Suspect 1", "Suspect 2", "Suspect 3", "Suspect 4",
                     "Suspect 5", "Suspect 6", "Suspect 7-10">>

(* ------------------- startup: lines 9-27 of app.py --------------------- *)
\* df["ID"].astype(str)
IdColumnAsStr(table) == [i \in 1..Len(table) |-> AsStr(table[i].ID)]

\* the loop of lines 12-18: one pass over the ID column, a dict from the
\* lowercase form to the set of cased forms seen
RECURSIVE BuildIdVariations(_, _)
BuildIdVariations(ids, acc) ==
    IF ids = <<>> THEN acc
    ELSE LET id == Head(ids)
             lower_id == Lower(id)
         IN  BuildIdVariations(Tail(ids),
                 IF lower_id \in DOMAIN acc
                 THEN [acc EXCEPT ![lower_id] = @ \cup {id}]
                 ELSE [k \in DOMAIN acc \cup {lower_id} |->
                          IF k = lower_id THEN {id} ELSE acc[k]])

EmptyDict == [k \in {} |-> {}]

IdVariations(table) == BuildIdVariations(IdColumnAsStr(table), EmptyDict)

\* line 21
LowercaseSpecificIds(table) == {id \in Range(IdColumnAsStr(table)) : IsLower(id)}

\* lines 24-27 without the test len(value) == 1
FilteredCaseCorrectionMap_AnyVariant(iv, lsi) ==
    [key \in {k \in DOMAIN iv : k \notin lsi} |-> CHOOSE id \in iv[key] : TRUE]

\* lines 24-27 without the test key not in lowercase_specific_ids
FilteredCaseCorrectionMap_NoLowercaseTest(iv, lsi) ==
    [key \in {k \in DOMAIN iv : Cardinality(iv[k]) = 1} |->
        CHOOSE id \in iv[key] : TRUE]

\* lines 24-27; next(iter(value)) of a one-element set is its element
FilteredCaseCorrectionMap(iv, lsi) ==
    [key \in {k \in DOMAIN iv : k \notin lsi /\ Cardinality(iv[k]) = 1} |->
        CHOOSE id \in iv[key] : TRUE]

(* ------------------ the input loop: lines 34-55 ------------------------ *)
\* a Python dict with str keys, kept as the sequence of its (key, value)
\* pairs in insertion order
DictKeys(d) == {d[i][1] : i \in 1..Len(d)}

DictSet(d, k, v) ==
    IF k \in DictKeys(d)
    THEN [i \in 1..Len(d) |-> IF d[i][1] = k THEN <<k, v>> ELSE d[i]]
    ELSE Append(d, <<k, v>>)

\* line 35 left out: the set of the run before is kept
FreshInvalidIds_Kept(previous) == previous

\* line 35: invalid_ids = set() at the top of every run
FreshInvalidIds(previous) == {}

\* line 36: corrected_ids = {} at the top of every run
FreshCorrectedIds(previous) == <<>>

\* line 46: the value the widget returns, stripped
IdInput(raw) == Strip(raw)

\* line 49
InCorrectionMap(id_input, map) == Lower(id_input) \in DOMAIN map

\* lines 42-55, fields taken in tab order; acc holds id_inputs and
\* corrected_ids (updated_inputs gets the same writes and is never read)
RECURSIVE InputLoop(_, _, _, _)
InputLoop(raws, index, map, acc) ==
    IF index > Len(raws) THEN acc
    ELSE LET id_input == IdInput(raws[index])
         IN  IF InCorrectionMap(id_input, map)
             THEN LET corrected_id == map[Lower(id_input)]
                  IN  InputLoop(raws, index + 1, map,
                        [id_inputs |-> Append(acc.id_inputs, corrected_id),
                         corrected_ids |->
                            DictSet(acc.corrected_ids, id_input, corrected_id)])
             ELSE InputLoop(raws, index + 1, map,
                        [id_inputs |-> Append(acc.id_inputs, id_input),
                         corrected_ids |-> acc.corrected_ids])

(* ------------------- lookup and report: lines 57-129 ------------------- *)
\* line 58 without the filter
IdsToSearch_KeepEmpty(inputs) == inputs

\* line 58: empty strings are falsy
IdsToSearch(inputs) ==
    LET NonEmpty(id) == id # <<>> IN SelectSeq(inputs, NonEmpty)

\* line 62: df["ID"].tolist(), the cells as loaded
FoundIds(table) == [i \in 1..Len(table) |-> table[i].ID]

\* id in found_ids
InFoundIds(id, found) == \E i \in 1..Len(found) : StrEqCell(id, found[i])

\* line 63
MissingIds(search, found) ==
    LET Missing(id) == ~InFoundIds(id, found) IN SelectSeq(search, Missing)

\* line 64
ValidIds(search, found) ==
    LET Valid(id) == InFoundIds(id, found) IN SelectSeq(search, Valid)

\* line 89 with the threshold off by one
CaseSensitiveFound_OffByOne(valid, iv) ==
    LET Collides(id) == /\ Lower(id) \in DOMAIN iv
                        /\ Cardinality(iv[Lower(id)]) > 2
    IN  SelectSeq(valid, Collides)

\* line 89
CaseSensitiveFound(valid, iv) ==
    LET Collides(id) == /\ Lower(id) \in DOMAIN iv
                        /\ Cardinality(iv[Lower(id)]) > 1
    IN  SelectSeq(valid, Collides)

\* line 91: one entry per id, with the variants joined into the text
DuplicateWarnings(found, iv) ==
    [i \in 1..Len(found) |->
        [id |-> found[i], matches |-> iv[Lower(found[i])]]]

\* line 96: df[df["ID"].isin(valid_ids)]
FilteredDf(table, valid) ==
    LET IsIn(row) == \E i \in 1..Len(valid) : StrEqCell(valid[i], row.ID)
    IN  SelectSeq(table, IsIn)

\* line 106: filtered_df[suspect_columns].values.flatten(), row by row
RECURSIVE SuspectData(_)
SuspectData(rows) ==
    IF rows = <<>> THEN <<>>
    ELSE [c \in 1..Len(suspect_columns) |-> Head(rows).suspects[c]]
         \o SuspectData(Tail(rows))

\* line 109
Suspects(data) == SelectSeq(data, NotNa)

\* the distinct values of a sequence in first-encountered order
RECURSIVE Distinct(_, _)
Distinct(s, seen) ==
    IF s = <<>> THEN seen
    ELSE Distinct(Tail(s),
                  IF Head(s) \in Range(seen) THEN seen ELSE Append(seen, Head(s)))

CountOf(v, s) == Cardinality({i \in 1..Len(s) : s[i] = v})

\* stable insertion of an entry into a sequence sorted by descending count
RECURSIVE InsertByCount(_, _)
InsertByCount(e, sorted) ==
    IF sorted = <<>> THEN <<e>>
    ELSE IF Head(sorted).count >= e.count
         THEN <<Head(sorted)>> \o InsertByCount(e, Tail(sorted))
         ELSE <<e>> \o sorted

RECURSIVE SortByCount(_, _)
SortByCount(entries, sorted) ==
    IF entries = <<>> THEN sorted
    ELSE SortByCount(Tail(entries), InsertByCount(Head(entries), sorted))

\* line 112 with value_counts(sort=False)
ValueCounts_Unsorted(s) ==
    LET values == Distinct(s, <<>>)
    IN  [i \in 1..Len(values) |->
            [value |-> values[i].s, count |-> CountOf(values[i], s)]]

\* line 112: pd.Series(suspects).value_counts()
ValueCounts(s) ==
    LET values == Distinct(s, <<>>)
        entries == [i \in 1..Len(values) |->
                       [value |-> values[i].s, count |-> CountOf(values[i], s)]]
    IN  SortByCount(entries, <<>>)

\* what a run with nothing to search renders (line 60 is false)
BlankPage ==
    [searched |-> FALSE, warn_missing |-> <<>>, msg_corrected |-> <<>>,
     warn_case |-> <<>>, results |-> <<>>, show_results |-> FALSE,
     suspect_count |-> <<>>, warn_no_valid |-> FALSE]

\* lines 60-121: the messages and tables of one run
Report(table, iv, search, missing, valid, corrected) ==
    IF search = <<>> THEN BlankPage
    ELSE LET filtered_df == FilteredDf(table, valid)
         IN  [searched |-> TRUE,
              warn_missing |-> missing,
              msg_corrected |-> corrected,
              warn_case |-> DuplicateWarnings(CaseSensitiveFound(valid, iv), iv),
              results |-> IF valid # <<>> THEN filtered_df ELSE <<>>,
              show_results |-> valid # <<>>,
              suspect_count |->
                  IF valid # <<>>
                  THEN ValueCounts(Suspects(SuspectData(filtered_df)))
                  ELSE <<>>,
              warn_no_valid |-> valid = <<>>]

\* lines 124-129: one rule input[value='<id>'] per invalid id; a field is
\* drawn red when the text it holds is the value of one of the rules
CssMarks(raw, invalid) == raw \in invalid


(* ------------------------------ state ---------------------------------- *)
VARIABLES
    df,                            \* the cached table (lines 5-9)
    fields,                        \* the text each of the fields holds
    id_variations,                 \* lines 12-18
    lowercase_specific_ids,        \* line 21
    filtered_case_correction_map,  \* lines 24-27
    id_inputs,                     \* line 34
    corrected_ids,                 \* line 36
    invalid_ids,                   \* line 35
    ids_to_search,                 \* line 58
    missing_ids,                   \* line 63
    valid_ids,                     \* line 64
    page                           \* what the run rendered

vars == <<df, fields, id_variations, lowercase_specific_ids,
          filtered_case_correction_map, id_inputs, corrected_ids, invalid_ids,
          ids_to_search, missing_ids, valid_ids, page>>

FieldIndex == 1..NumFields

(* --------------------------- the tables -------------------------------- *)
\* the cells of the ID column: a word in uppercase and in lowercase, two
\* mixed-case forms of a longer word, and a numeric cell
IdCells ==
    {StrCell(<<"A">>), StrCell(<<"a">>), StrCell(<<"A", "b">>),
     StrCell(<<"a", "B">>), IntCell(1)}

NoSuspects == [c \in 1..Len(suspect_columns) |-> NaN]

SuspectCells == {StrCell(v) : v \in SuspectValues} \cup {NaN}

\* rows whose first and last suspect cells are free, the others NaN
SuspectRows ==
    {[c \in 1..Len(suspect_columns) |->
         IF c = 1 THEN first
         ELSE IF c = Len(suspect_columns) THEN last ELSE NaN] :
        first \in SuspectCells, last \in SuspectCells}

\* tables that vary the ID column
LookupTables ==
    UNION {[1..k -> {[ID |-> id, suspects |-> NoSuspects] : id \in IdCells}] :
              k \in 0..MaxRows}

\* the lookup tables whose ID column holds only str cells
StrTables ==
    {table \in LookupTables : \A r \in 1..Len(table) : table[r].ID.kind = "str"}

\* tables that vary the suspect columns; the IDs alternate between the two
\* case variants of one identifier
TallyId(r) == IF r % 2 = 1 THEN StrCell(<<"a">>) ELSE StrCell(<<"A">>)

TallyTables ==
    UNION {{[r \in 1..k |-> [ID |-> TallyId(r), suspects |-> f[r]]] :
               f \in [1..k -> SuspectRows]} : k \in 1..MaxRows}

\* the texts a user commits: nothing, a blank, the words of the table in
\* stored and other casings, the number, and a word followed by a blank
RawTexts ==
    {<<>>, <<" ">>, <<"a">>, <<"A">>, <<"a", "b">>, <<"A", "b">>, <<"1">>,
     <<"a", " ">>}

\* the texts committed over the tally tables
TallyTexts == {<<>>, <<"a">>, <<"A">>}

(* --------------------------- one script run ---------------------------- *)
\* the whole of app.py, run with the widgets holding fields'
RunScript ==
    /\ UNCHANGED df
    /\ id_variations' = IdVariations(df)
    /\ lowercase_specific_ids' = LowercaseSpecificIds(df)
    /\ filtered_case_correction_map' =
           FilteredCaseCorrectionMap(id_variations', lowercase_specific_ids')
    /\ LET loop == InputLoop(fields', 1, filtered_case_correction_map',
                       [id_inputs |-> <<>>,
                        corrected_ids |-> FreshCorrectedIds(corrected_ids)])
       IN  /\ id_inputs' = loop.id_inputs
           /\ corrected_ids' = loop.corrected_ids
    /\ ids_to_search' = IdsToSearch(id_inputs')
    /\ missing_ids' = IF ids_to_search' # <<>>
                      THEN MissingIds(ids_to_search', FoundIds(df))
                      ELSE <<>>
    /\ valid_ids' = IF ids_to_search' # <<>>
                    THEN ValidIds(ids_to_search', FoundIds(df))
                    ELSE <<>>
    /\ invalid_ids' = FreshInvalidIds(invalid_ids) \cup Range(missing_ids')
    /\ page' = Report(df, id_variations', ids_to_search', missing_ids',
                      valid_ids', corrected_ids')

\* the first run of a session over one of tables: data.xlsx is loaded and
\* every field is empty
InitOver(tables) ==
    /\ df \in tables
    /\ fields = [i \in FieldIndex |-> <<>>]
    /\ id_variations = IdVariations(df)
    /\ lowercase_specific_ids = LowercaseSpecificIds(df)
    /\ filtered_case_correction_map =
           FilteredCaseCorrectionMap(id_variations, lowercase_specific_ids)
    /\ id_inputs = [i \in FieldIndex |-> <<>>]
    /\ corrected_ids = <<>>
    /\ invalid_ids = {}
    /\ ids_to_search = <<>>
    /\ missing_ids = <<>>
    /\ valid_ids = <<>>
    /\ page = BlankPage

Init == InitOver(LookupTables)

InitStr == InitOver(StrTables)

InitTally == InitOver(TallyTables)

\* the user commits text in field index: Streamlit reruns the script
TextInput(index, text) ==
    /\ fields' = [fields EXCEPT ![index] = text]
    /\ RunScript

\* the user reloads the page: a new session, every widget at its default ""
Reload ==
    /\ fields' = [i \in FieldIndex |-> <<>>]
    /\ RunScript

Next ==
    \/ \E index \in FieldIndex, text \in RawTexts : TextInput(index, text)
    \/ Reload

NextTally ==
    \/ \E index \in FieldIndex, text \in TallyTexts : TextInput(index, text)
    \/ Reload

Spec == Init /\ [][Next]_vars

SpecStr == InitStr /\ [][Next]_vars

SpecTally == InitTally /\ [][NextTally]_vars

\* the fields drawn red by the style sheet of lines 124-129
MarkedFields == {i \in FieldIndex : CssMarks(fields[i], invalid_ids)}


(* ======================= the claims, C1 to C10 ========================= *)
\* the identifiers of the table as the Case Index holds them
StoredIds == {AsStr(df[r].ID) : r \in 1..Len(df)}

\* the cased variants stored under a lowercase key
VariantsOf(key) == {y \in StoredIds : Lower(y) = key}

\* the key is itself an identifier stored in lowercase form
LowercaseSpecific(key) == \E y \in StoredIds : y = key /\ IsLower(y)

\* the trimmed text of field i
Typed(i) == Strip(fields[i])

FoundSet == Range(valid_ids)

MissingSet == Range(missing_ids)

\* the (original, corrected) pairs recorded by the run
Corrections == Range(corrected_ids)

\* the fields whose searched value is missing
MissingFields ==
    {i \in FieldIndex : id_inputs[i] # <<>> /\ id_inputs[i] \in MissingSet}

(* C1: for every table ID Y that is the only cased variant under lower(Y),   *)
(* with lower(Y) not a lowercase-specific ID, every field whose trimmed text *)
(* has the lowercase form of Y is searched as Y, and Y is in the found set.  *)
C1_UniqueVariantResolves ==
    \A y \in StoredIds :
        (VariantsOf(Lower(y)) = {y} /\ ~LowercaseSpecific(Lower(y)))
            => \A i \in FieldIndex :
                   Lower(Typed(i)) = Lower(y)
                       => (id_inputs[i] = y /\ y \in FoundSet)

(* C2, as claimed: for every identifier with two or more cased variants, a   *)
(* collision notice listing all of its variants is produced whenever a field *)
(* holds it in any casing, stored or not.                                    *)
C2_CollisionNoticeAnyCasing ==
    \A i \in FieldIndex :
        Cardinality(VariantsOf(Lower(Typed(i)))) >= 2
            => \E n \in 1..Len(page.warn_case) :
                   /\ page.warn_case[n].id = id_inputs[i]
                   /\ page.warn_case[n].matches = VariantsOf(Lower(Typed(i)))

(* C2, amended: for every identifier with two or more cased variants, a      *)
(* collision notice listing all of its variants is produced whenever a field *)
(* holds it in the casing of one of its stored variants; in a casing that is *)
(* not stored the field is reported as not found, with no collision notice.  *)
C2_CollisionNoticeStoredCasing ==
    \A i \in FieldIndex :
        Cardinality(VariantsOf(Lower(Typed(i)))) >= 2
            => IF Typed(i) \in VariantsOf(Lower(Typed(i)))
               THEN \E n \in 1..Len(page.warn_case) :
                        /\ page.warn_case[n].id = Typed(i)
                        /\ page.warn_case[n].matches = VariantsOf(Lower(Typed(i)))
               ELSE /\ Typed(i) \in MissingSet
                    /\ \A n \in 1..Len(page.warn_case) :
                           page.warn_case[n].id # Typed(i)

\* a field holds a stored variant of a two-variant identifier, the other
\* field holds a casing of it that is not stored
C2_Witness ==
    \E i, j \in FieldIndex :
        /\ Cardinality(VariantsOf(Lower(Typed(i)))) >= 2
        /\ Typed(i) \in VariantsOf(Lower(Typed(i)))
        /\ Lower(Typed(j)) = Lower(Typed(i))
        /\ Typed(j) \notin VariantsOf(Lower(Typed(i)))
        /\ Len(page.warn_case) = 1

(* C3: a field whose lowercase form has two or more stored cased variants is *)
(* never rewritten and gets no recorded correction; it is searched as typed  *)
(* (trimmed), so it is found iff it is itself one of the stored variants.    *)
C3_NoCorrectionOnAmbiguity ==
    \A i \in FieldIndex :
        Cardinality(VariantsOf(Lower(Typed(i)))) >= 2
            => /\ id_inputs[i] = Typed(i)
               /\ \A c \in Corrections : c[1] # Typed(i)
               /\ (Typed(i) \in FoundSet) <=> (Typed(i) \in VariantsOf(Lower(Typed(i))))
               /\ (Typed(i) \in MissingSet) <=> (Typed(i) \notin VariantsOf(Lower(Typed(i))))

\* one field holds a stored variant and is found, the other an unstored
\* casing of the same identifier and is missing
C3_Witness ==
    \E i, j \in FieldIndex :
        /\ Cardinality(VariantsOf(Lower(Typed(i)))) >= 2
        /\ Lower(Typed(j)) = Lower(Typed(i))
        /\ Typed(i) \in FoundSet
        /\ Typed(j) \in MissingSet

\* the table of the example {ABC, abc123}: an uppercase identifier and a
\* lowercase-specific one under another key
ExampleTable == StoredIds = {<<"A", "b">>, <<"a">>}

(* C4: a field whose lowercase form is an ID stored in lowercase form passes *)
(* through unchanged, in any casing, with no recorded correction, even when  *)
(* a differently cased variant is stored too; over {Ab, a} (the shape of     *)
(* {ABC, abc123}) ab is corrected to Ab and a stays a.                       *)
C4_LowercaseSpecificNeverRewritten ==
    /\ \A i \in FieldIndex :
           LowercaseSpecific(Lower(Typed(i)))
               => /\ id_inputs[i] = Typed(i)
                  /\ \A c \in Corrections : c[1] # Typed(i)
    /\ ExampleTable =>
           \A i \in FieldIndex :
               /\ Typed(i) = <<"a", "b">> => id_inputs[i] = <<"A", "b">>
               /\ Typed(i) = <<"a">> => id_inputs[i] = <<"a">>

\* the example: ab and a typed over {Ab, a}
C4_Witness ==
    /\ ExampleTable
    /\ \E i, j \in FieldIndex :
           /\ Typed(i) = <<"a", "b">> /\ id_inputs[i] = <<"A", "b">>
           /\ Typed(j) = <<"a">> /\ id_inputs[j] = <<"a">>

(* C5: the non-empty searched values split into found (in the ID column)     *)
(* and missing (not in it), disjoint and covering; the not-found notice      *)
(* lists exactly the missing values; the marked fields are exactly the       *)
(* fields whose value is missing.                                            *)
C5_PartitionAndMarking ==
    /\ FoundSet \cap MissingSet = {}
    /\ FoundSet \cup MissingSet = {id_inputs[i] : i \in FieldIndex} \ {<<>>}
    /\ \A id \in FoundSet : \E r \in 1..Len(df) : StrEqCell(id, df[r].ID)
    /\ \A id \in MissingSet : \A r \in 1..Len(df) : ~StrEqCell(id, df[r].ID)
    /\ Range(page.warn_missing) = MissingSet
    /\ MarkedFields = MissingFields

(* C6: a field that is empty, or empty once trimmed, adds nothing to the     *)
(* found set, the missing set, the corrections or the marked fields,         *)
(* whatever the other fields hold; with every field empty no lookup runs     *)
(* and no notice or result is shown.                                         *)
C6_EmptyFieldsIgnored ==
    LET full == {i \in FieldIndex : Typed(i) # <<>>}
    IN  /\ <<>> \notin FoundSet \cup MissingSet \cup invalid_ids
        /\ \A c \in Corrections : c[1] # <<>>
        /\ FoundSet \cup MissingSet = {id_inputs[i] : i \in full}
        /\ {c[1] : c \in Corrections} \subseteq {Typed(i) : i \in full}
        /\ MarkedFields \subseteq full
        /\ full = {} => /\ page = BlankPage
                        /\ ~page.searched
                        /\ invalid_ids = {}

\* a blank field next to a field that is found, and next to one that is
\* missing and marked
C6_Witness ==
    \E i, j \in FieldIndex :
        /\ fields[i] # <<>> /\ Typed(i) = <<>>
        /\ Typed(j) # <<>>
        /\ page.searched
        /\ MissingSet # {}


\* the rows of the table whose ID is in the found set, each once
MatchedRows == {r \in 1..Len(df) : AsStr(df[r].ID) \in FoundSet}

\* the suspect cells of the matched rows that hold value v
CellsHolding(v) ==
    {rc \in MatchedRows \X (1..Len(suspect_columns)) :
        df[rc[1]].suspects[rc[2]] = StrCell(v)}

\* the entries of the frequency table for value v
EntriesFor(v) ==
    {n \in 1..Len(page.suspect_count) : page.suspect_count[n].value = v}

\* the suspect cells of the matched rows, row by row and leaving out the
\* empty cells in between, are X, Y, X, null
ExampleSuspects ==
    LET last == Len(suspect_columns)
    IN  /\ Len(df) = 2
        /\ MatchedRows = {1, 2}
        /\ df[1].suspects[1] = StrCell(<<"X">>)
        /\ df[1].suspects[last] = StrCell(<<"Y">>)
        /\ df[2].suspects[1] = StrCell(<<"X">>)
        /\ df[2].suspects[last] = NaN
        /\ \A r \in 1..2 : \A c \in 2..(last - 1) : df[r].suspects[c] = NaN

(* C7: over the rows whose ID is in the found set, each taken once, the      *)
(* frequency table has exactly one entry per distinct non-null value of the  *)
(* seven suspect columns, its count is the number of cells holding the       *)
(* value, null cells add nothing, and the counts do not increase down the    *)
(* table; the cells X, Y, X, null give X:2, Y:1.                             *)
C7_SuspectTally ==
    /\ page.show_results =>
        /\ \A v \in SuspectValues :
               IF CellsHolding(v) = {} THEN EntriesFor(v) = {}
               ELSE /\ Cardinality(EntriesFor(v)) = 1
                    /\ \A n \in EntriesFor(v) :
                           page.suspect_count[n].count = Cardinality(CellsHolding(v))
        /\ \A n \in 1..Len(page.suspect_count) :
               page.suspect_count[n].value \in SuspectValues
        /\ \A n \in 1..(Len(page.suspect_count) - 1) :
               page.suspect_count[n].count >= page.suspect_count[n + 1].count
        /\ ExampleSuspects =>
               page.suspect_count = << [value |-> <<"X">>, count |-> 2],
                                       [value |-> <<"Y">>, count |-> 1] >>
    /\ ~page.show_results => page.suspect_count = <<>>

\* both rows of the example are named, one by each field, and the table
\* X:2, Y:1 is shown
C7_Witness ==
    /\ ExampleSuspects
    /\ page.show_results
    /\ Len(valid_ids) = 2
    /\ Len(page.suspect_count) = 2
    /\ page.suspect_count[1].count = 2

\* what the run's outputs are, as a function of the table and of the text the
\* fields hold now
StatelessOutputs ==
    LET map == filtered_case_correction_map
        hit == {i \in FieldIndex : Lower(Typed(i)) \in DOMAIN map}
        ids == {id \in StoredIds : \E r \in 1..Len(df) : StrEqCell(id, df[r].ID)}
    IN  /\ \A i \in FieldIndex :
               id_inputs[i] = IF i \in hit THEN map[Lower(Typed(i))] ELSE Typed(i)
        /\ Corrections = {<<Typed(i), map[Lower(Typed(i))]>> : i \in hit}
        /\ FoundSet = ({id_inputs[i] : i \in FieldIndex} \ {<<>>}) \cap ids
        /\ MissingSet = ({id_inputs[i] : i \in FieldIndex} \ {<<>>}) \ ids
        /\ invalid_ids = MissingSet
        /\ MarkedFields = {i \in FieldIndex : fields[i] \in MissingSet}

\* an interaction leaves the table and the structures built from it alone
ReadOnlyTable ==
    /\ df' = df
    /\ id_variations' = id_variations
    /\ lowercase_specific_ids' = lowercase_specific_ids
    /\ filtered_case_correction_map' = filtered_case_correction_map

\* a marked field is unmarked by the interaction that clears it or makes its
\* value resolve
UnmarkedOnceResolved ==
    \A i \in MarkedFields :
        (Typed(i)' = <<>> \/ id_inputs'[i] \in FoundSet') => i \notin MarkedFields'

(* C8: across any sequence of interactions the table, the Case Index and the *)
(* Correction Map never change, and the found set, the missing set, the      *)
(* corrections and the marked fields are a function of the text the fields   *)
(* hold now: a field marked by one interaction is unmarked by the next once  *)
(* it resolves or is cleared.                                                *)
C8_StatelessReadOnly ==
    /\ []StatelessOutputs
    /\ [][ReadOnlyTable /\ UnmarkedOnceResolved]_vars

\* after interactions: a cleared field and a found one, nothing marked, over
\* a non-empty table
C8_Witness ==
    /\ df # <<>>
    /\ \E i, j \in FieldIndex :
           /\ fields[i] = <<>>
           /\ id_inputs[j] \in FoundSet
    /\ page.searched
    /\ invalid_ids = {}
    /\ MarkedFields = {}

(* C9: every value written by the Correction Resolver is an ID of the table  *)
(* with the lowercase form of the typed value, so every corrected field is   *)
(* in the found set and none is in both the auto-correction message and the  *)
(* not-found notice.                                                         *)
C9_CorrectionsAreFound ==
    \A c \in Corrections :
        /\ Lower(c[2]) = Lower(c[1])
        /\ c[2] \in StoredIds
        /\ c[2] \in FoundSet
        /\ ~(c \in Range(page.msg_corrected) /\ c[2] \in Range(page.warn_missing))

(* C10: a correction is recorded and reported for a field only when the      *)
(* field was rewritten, the canonical form differing from the trimmed text;  *)
(* an identifier typed in its canonical casing gives no auto-correction      *)
(* message.                                                                  *)
C10_OnlyRewritesReported ==
    /\ \A c \in Corrections : c[1] # c[2]
    /\ \A c \in Range(page.msg_corrected) : c[1] # c[2]


====
